---- MODULE Spec2Model ----
(***************************************************************************)
(* Model of the afri-soutien backend: the Express routes of                *)
(* src/server/routes.ts running over the DatabaseStorage repository of     *)
(* src/unnamed/part_000 (server/storage.ts) and the tables of              *)
(* src/shared/schema.ts.                                                   *)
(*                                                                         *)
(* Every `await storage.x(...)` is one SQL statement and is one atomic     *)
(* step; a request handler is the sequence of its storage calls, and the   *)
(* handlers of different requests interleave between those calls.          *)
(*                                                                         *)
(* Decimal columns (precision 12, scale 2) are represented as integers in  *)
(* hundredths; parseFloat / toString on such a value and the column's      *)
(* rounding to scale 2 give back the same number of hundredths for the     *)
(* magnitudes used here, so the sum of routes.ts:260 is integer addition.  *)
(***************************************************************************)
EXTENDS Integers, Sequences, FiniteSets, TLC

\* ---------------------------------------------------------------- bounds
\* Requests served in one behaviour.
MaxRequests == 2
\* Request handlers that can be in flight at the same time.
NumHandlers == 2
\* Rows of financial_donations present when the server starts.
MaxSeeded == 2

Handlers == 1..NumHandlers

\* SQL NULL / JavaScript undefined for an id-valued field.
NULL == 0

\* Operator transaction ids: row i of the initial table carries id i; the
\* last id is carried by no row.
TxIds == 1..(MaxSeeded + 1)
UnknownTx == MaxSeeded + 1

\* Donation amounts in hundredths (the column accepts any decimal string).
Amounts == {-50, 100}
SeedAmounts == {100, 250}

\* Values the payment operator sends as `status` in a callback body.
CallbackStatuses == {"success", "failure", "SUCCESS"}

\* Values an admin sends as `status` for a boutique order.
OrderStatusInputs == {"approved", "rejected", "shipped"}

VARIABLES
  users,               \* table users:               id -> [role]
  campaigns,           \* table campaigns:           id -> [status, currentAmount]
  financialDonations,  \* table financial_donations: id -> row
  materialDonations,   \* table material_donations:  id -> [status]
  boutiqueItems,       \* table boutique_items:      id -> [sourceDonationId, status]
  boutiqueOrders,      \* table boutique_orders:     id -> row
  pc,                  \* handler -> position in its route handler
  req,                 \* handler -> the request it serves
  loc,                 \* handler -> its local constants (req.user, donation, campaign)
  resp,                \* handler -> the response it sent
  nreq                 \* requests received so far

ledgerTables == <<campaigns, financialDonations>>
allocTables == <<materialDonations, boutiqueItems, boutiqueOrders>>
tables == <<users, campaigns, financialDonations, materialDonations,
            boutiqueItems, boutiqueOrders>>
vars == <<users, campaigns, financialDonations, materialDonations,
          boutiqueItems, boutiqueOrders, pc, req, loc, resp, nreq>>

\* ------------------------------------------------------- handler records
NoRow == [id |-> NULL]
NoLoc == [user |-> NoRow, donation |-> NoRow, campaign |-> NoRow]
NoResp == [code |-> 0, id |-> NULL]
NoReq == [kind |-> "none"]

Idle(h) == pc[h] \in {"idle", "done"}

\* A request arrives and is served by the first free handler.
Receive(h, r) ==
  /\ Idle(h)
  /\ \A g \in Handlers : g < h => ~Idle(g)
  /\ nreq < MaxRequests
  /\ nreq' = nreq + 1
  /\ req' = [req EXCEPT ![h] = r]

\* res.status(code).json(...): the handler is finished and its locals are gone.
Respond(h, code, id) ==
  /\ pc' = [pc EXCEPT ![h] = "done"]
  /\ resp' = [resp EXCEPT ![h] = [code |-> code, id |-> id]]
  /\ loc' = [loc EXCEPT ![h] = NoLoc]

\* The handler awaits its next storage call at `label`, holding `locals`.
Goto(h, label, locals) ==
  /\ pc' = [pc EXCEPT ![h] = label]
  /\ resp' = [resp EXCEPT ![h] = NoResp]
  /\ loc' = [loc EXCEPT ![h] = locals]

\* ------------------------------------------------------------ repository
WithId(table, id) == [id |-> id] @@ table[id]

\* Mutant: a lookup that falls back to the oldest row when nothing matches.
getDonationsByOperatorTxId_Fallback(table, txId) ==
  LET hits == {d \in DOMAIN table : table[d].operatorTransactionId = txId}
  IN IF hits # {}
     THEN WithId(table, CHOOSE d \in hits : \A e \in hits : d <= e)
     ELSE IF table # << >> THEN WithId(table, 1) ELSE NoRow

\* SELECT ... WHERE operator_transaction_id = txId; the first row or none.
getDonationsByOperatorTxId(table, txId) ==
  LET hits == {d \in DOMAIN table : table[d].operatorTransactionId = txId}
  IN IF txId # NULL /\ hits # {}
     THEN WithId(table, CHOOSE d \in hits : \A e \in hits : d <= e)
     ELSE NoRow

\* Mutant: the UPDATE without its WHERE clause.
updateDonation_NoWhere(table, id, updates) ==
  [d \in DOMAIN table |->
     [table[d] EXCEPT !.status = updates.status,
                      !.operatorTransactionId = updates.operatorTransactionId]]

\* UPDATE financial_donations SET status, operator_transaction_id WHERE id.
updateDonation(table, id, updates) ==
  IF id \in DOMAIN table
  THEN [table EXCEPT ![id] = [@ EXCEPT !.status = updates.status,
                                       !.operatorTransactionId =
                                          updates.operatorTransactionId]]
  ELSE table

\* Mutant: the status column with another default.
createDonation_DefaultCompleted(table, donation) ==
  Append(table, [campaignId |-> donation.campaignId,
                 amount |-> donation.amount,
                 operatorTransactionId |-> NULL,
                 status |-> "completed"])

\* INSERT INTO financial_donations VALUES (donation): a column the donation
\* does not give takes its default.
createDonation(table, donation) ==
  Append(table,
    [campaignId |-> donation.campaignId,
     amount |-> donation.amount,
     operatorTransactionId |-> IF "operatorTransactionId" \in DOMAIN donation
                               THEN donation.operatorTransactionId ELSE NULL,
     status |-> IF "status" \in DOMAIN donation
                THEN donation.status ELSE "pending"])

getCampaign(table, id) ==
  IF id \in DOMAIN table THEN WithId(table, id) ELSE NoRow

\* UPDATE campaigns SET (the columns of updates) WHERE id.
updateCampaign(table, id, updates) ==
  IF id \in DOMAIN table
  THEN [table EXCEPT ![id] =
          [f \in DOMAIN table[id] |->
             IF f \in DOMAIN updates THEN updates[f] ELSE table[id][f]]]
  ELSE table

\* ------------------------------------------- POST /api/donations/initiate
\* Mutant: the insert schema without its omit list.
insertFinancialDonationSchema_NoOmit(body) == body

\* insertFinancialDonationSchema: status and operatorTransactionId are
\* omitted from the schema, so zod strips them from the parsed body.
insertFinancialDonationSchema(body) ==
  [campaignId |-> body.campaignId, amount |-> body.amount]

\* Bodies of initiate requests: campaign 3 does not exist; a body may carry
\* the two fields the schema omits.
InitiateBodies ==
  {[campaignId |-> c, amount |-> a, operatorTransactionId |-> x[1], status |-> x[2]] :
     c \in 1..3, a \in Amounts, x \in {<<NULL, "pending">>, <<UnknownTx, "completed">>}}

\* The insert fails on the foreign key when the campaign does not exist.
InitiateDonation(h, body) ==
  /\ Receive(h, [kind |-> "initiate", body |-> body])
  /\ Len(financialDonations) <= MaxSeeded
  /\ LET donationData == insertFinancialDonationSchema(body)
     IN IF donationData.campaignId \in DOMAIN campaigns
        THEN /\ financialDonations' = createDonation(financialDonations, donationData)
             /\ Respond(h, 201, Len(financialDonations) + 1)
        ELSE /\ financialDonations' = financialDonations
             /\ Respond(h, 400, NULL)
  /\ UNCHANGED <<users, campaigns, allocTables>>

\* ---------------------------------- POST /api/donations/callback/:operator
\* Mutant: the ternary with its branches swapped.
DonationStatusFor_Swapped(status) ==
  IF status = "success" THEN "failed" ELSE "completed"

\* Mutant: the comparison made without regard to case.
DonationStatusFor_IgnoreCase(status) ==
  IF status \in {"success", "SUCCESS"} THEN "completed" ELSE "failed"

\* status === 'success' ? 'completed' : 'failed'
DonationStatusFor(status) ==
  IF status = "success" THEN "completed" ELSE "failed"

\* const donation = await storage.getDonationsByOperatorTxId(transaction_id)
CallbackLookup(h, transaction_id, status) ==
  /\ Receive(h, [kind |-> "callback", transaction_id |-> transaction_id,
                 status |-> status])
  /\ LET donation == getDonationsByOperatorTxId(financialDonations, transaction_id)
     IN IF donation = NoRow
        THEN Respond(h, 404, NULL)
        ELSE Goto(h, "cbUpdateDonation", [NoLoc EXCEPT !.donation = donation])
  /\ UNCHANGED tables

\* await storage.updateDonation(donation.id, {status, operatorTransactionId})
CallbackUpdateDonation(h) ==
  /\ pc[h] = "cbUpdateDonation"
  /\ financialDonations' =
       updateDonation(financialDonations, loc[h].donation.id,
                      [status |-> DonationStatusFor(req[h].status),
                       operatorTransactionId |-> req[h].transaction_id])
  /\ IF req[h].status = "success"
     THEN Goto(h, "cbGetCampaign", loc[h])
     ELSE Respond(h, 200, loc[h].donation.id)
  /\ UNCHANGED <<users, campaigns, allocTables, req, nreq>>

\* const campaign = await storage.getCampaign(donation.campaignId)
CallbackGetCampaign(h) ==
  /\ pc[h] = "cbGetCampaign"
  /\ LET campaign == getCampaign(campaigns, loc[h].donation.campaignId)
     IN IF campaign = NoRow
        THEN Respond(h, 200, loc[h].donation.id)
        ELSE Goto(h, "cbUpdateCampaign", [loc[h] EXCEPT !.campaign = campaign])
  /\ UNCHANGED <<tables, req, nreq>>

\* newAmount = campaign.currentAmount + donation.amount, both as read before;
\* await storage.updateCampaign(campaign.id, {currentAmount: newAmount})
CallbackUpdateCampaign(h) ==
  /\ pc[h] = "cbUpdateCampaign"
  /\ LET newAmount == loc[h].campaign.currentAmount + loc[h].donation.amount
     IN campaigns' = updateCampaign(campaigns, loc[h].campaign.id,
                                    [currentAmount |-> newAmount])
  /\ Respond(h, 200, loc[h].donation.id)
  /\ UNCHANGED <<users, financialDonations, allocTables, req, nreq>>

\* --------------------------------------------------------- authentication
\* Bearer tokens: none, one whose signature does not verify, or a valid one
\* for a user id (the last id is of no stored user).
BadToken == -1
Tokens == {NULL, BadToken} \cup 1..3

getUser(table, id) ==
  IF id \in DOMAIN table THEN WithId(table, id) ELSE NoRow

\* Mutant: the middleware lets every authenticated user through.
requireAdmin_AnyUser(user) == TRUE

\* requireAdmin: req.user?.role !== 'admin' is refused.
requireAdmin(user) == user.role = "admin"

\* authenticateToken, then requireAdmin on the admin routes, then the route
\* handler, which awaits its first storage call at `next`.
authenticateToken(h, token, adminOnly, next) ==
  IF token = NULL
  THEN Respond(h, 401, NULL)
  ELSE IF token = BadToken
  THEN Respond(h, 403, NULL)
  ELSE LET user == getUser(users, token)
       IN IF user = NoRow
          THEN Respond(h, 401, NULL)
          ELSE IF adminOnly /\ ~requireAdmin(user)
          THEN Respond(h, 403, NULL)
          ELSE Goto(h, next, [NoLoc EXCEPT !.user = user])

\* ------------------------------------------------ POST /api/boutique/orders
\* Mutant: the insert schema without its omit list.
insertBoutiqueOrderSchema_NoOmit(body) == body

\* insertBoutiqueOrderSchema: status and handledByAdminId are omitted.
insertBoutiqueOrderSchema(body) ==
  [userId |-> body.userId, itemId |-> body.itemId]

\* INSERT INTO boutique_orders VALUES (order): a column the order does not
\* give takes its default.
createBoutiqueOrder(table, order) ==
  Append(table,
    [userId |-> order.userId, itemId |-> order.itemId,
     status |-> IF "status" \in DOMAIN order
                THEN order.status ELSE "pending_approval",
     handledByAdminId |-> IF "handledByAdminId" \in DOMAIN order
                          THEN order.handledByAdminId ELSE NULL])

\* Bodies of order requests: item 3 does not exist; a body may carry the
\* two fields the schema omits.
RequestBodies ==
  {[itemId |-> i, status |-> "pending_approval", handledByAdminId |-> NULL] :
     i \in 1..3}
  \cup {[itemId |-> 1, status |-> "approved", handledByAdminId |-> 1]}

RequestItemAuth(h, token, body) ==
  /\ Receive(h, [kind |-> "requestItem", token |-> token, body |-> body])
  /\ authenticateToken(h, token, FALSE, "roCreate")
  /\ UNCHANGED tables

\* The insert fails on the foreign key when the item does not exist.
RequestItemCreate(h) ==
  /\ pc[h] = "roCreate"
  /\ Len(boutiqueOrders) <= MaxSeeded
  /\ LET orderData == insertBoutiqueOrderSchema(
                        [userId |-> loc[h].user.id] @@ req[h].body)
     IN IF orderData.itemId \in DOMAIN boutiqueItems
        THEN /\ boutiqueOrders' = createBoutiqueOrder(boutiqueOrders, orderData)
             /\ Respond(h, 201, Len(boutiqueOrders) + 1)
        ELSE /\ boutiqueOrders' = boutiqueOrders
             /\ Respond(h, 400, NULL)
  /\ UNCHANGED <<users, ledgerTables, materialDonations, boutiqueItems, req, nreq>>

\* ------------------------------ PUT /api/admin/boutique/orders/:id/status
\* Mutant: the UPDATE without its WHERE clause.
updateBoutiqueOrder_NoWhere(table, id, updates) ==
  [o \in DOMAIN table |->
     [table[o] EXCEPT !.status = updates.status,
                      !.handledByAdminId = updates.handledByAdminId]]

\* UPDATE boutique_orders SET status, handled_by_admin_id WHERE id.
updateBoutiqueOrder(table, id, updates) ==
  IF id \in DOMAIN table
  THEN [table EXCEPT ![id] = [@ EXCEPT !.status = updates.status,
                                       !.handledByAdminId =
                                          updates.handledByAdminId]]
  ELSE table

DecideAuth(h, token, id, status) ==
  /\ Receive(h, [kind |-> "decide", token |-> token, id |-> id, status |-> status])
  /\ authenticateToken(h, token, TRUE, "decUpdate")
  /\ UNCHANGED tables

\* await storage.updateBoutiqueOrder(id, {status, handledByAdminId});
\* res.json(order)
DecideUpdate(h) ==
  /\ pc[h] = "decUpdate"
  /\ boutiqueOrders' =
       updateBoutiqueOrder(boutiqueOrders, req[h].id,
                           [status |-> req[h].status,
                            handledByAdminId |-> loc[h].user.id])
  /\ Respond(h, 200, IF req[h].id \in DOMAIN boutiqueOrders THEN req[h].id ELSE NULL)
  /\ UNCHANGED <<users, ledgerTables, materialDonations, boutiqueItems, req, nreq>>

\* ------------------------------------------- POST /api/material-donations
\* INSERT INTO material_donations: status takes its column default (the
\* insert schema omits it).
createMaterialDonation(table) ==
  Append(table, [status |-> "pending_verification"])

\* A body that lacks a required field fails insertMaterialDonationSchema.
SubmitMaterialDonation(h, valid) ==
  /\ Receive(h, [kind |-> "submit", valid |-> valid])
  /\ IF valid
     THEN /\ materialDonations' = createMaterialDonation(materialDonations)
          /\ Respond(h, 201, Len(materialDonations) + 1)
     ELSE /\ materialDonations' = materialDonations
          /\ Respond(h, 400, NULL)
  /\ UNCHANGED <<users, ledgerTables, boutiqueItems, boutiqueOrders>>

\* ------------------------- POST /api/admin/material-donations/:id/publish
\* UPDATE material_donations SET status WHERE id.
updateMaterialDonation(table, id, status) ==
  IF id \in DOMAIN table
  THEN [table EXCEPT ![id] = [@ EXCEPT !.status = status]]
  ELSE table

\* INSERT INTO boutique_items: status takes its column default.
createBoutiqueItem(table, item) ==
  Append(table, [sourceDonationId |-> item.sourceDonationId,
                 status |-> "available"])

\* title, description and category are NOT NULL columns: a body without one
\* of them (hasTitle = FALSE) makes the insert throw.
PublishBodies == [hasTitle : BOOLEAN]

PublishAuth(h, token, id, body) ==
  /\ Receive(h, [kind |-> "publish", token |-> token, id |-> id, body |-> body])
  /\ authenticateToken(h, token, TRUE, "pubUpdate")
  /\ UNCHANGED tables

\* await storage.updateMaterialDonation(donationId, {status: 'published_in_store'})
PublishUpdate(h) ==
  /\ pc[h] = "pubUpdate"
  /\ materialDonations' =
       updateMaterialDonation(materialDonations, req[h].id, "published_in_store")
  /\ Goto(h, "pubCreate", loc[h])
  /\ UNCHANGED <<users, ledgerTables, boutiqueItems, boutiqueOrders, req, nreq>>

\* const item = await storage.createBoutiqueItem({sourceDonationId, ...});
\* the insert throws on the foreign key or on a missing NOT NULL field, and
\* the catch block answers 500.
PublishCreate(h) ==
  /\ pc[h] = "pubCreate"
  /\ IF req[h].id \in DOMAIN materialDonations /\ req[h].body.hasTitle
     THEN /\ boutiqueItems' =
               createBoutiqueItem(boutiqueItems, [sourceDonationId |-> req[h].id])
          /\ Respond(h, 200, Len(boutiqueItems) + 1)
     ELSE /\ boutiqueItems' = boutiqueItems
          /\ Respond(h, 500, NULL)
  /\ UNCHANGED <<users, ledgerTables, materialDonations, boutiqueOrders, req, nreq>>

\* ------------------------------------------------------ POST /api/campaigns
\* insertCampaignSchema: status and currentAmount are omitted.
insertCampaignSchema(body) == [userId |-> body.userId]

\* INSERT INTO campaigns VALUES (campaign): a column the campaign does not
\* give takes its default.
createCampaign(table, campaign) ==
  Append(table,
    [status |-> IF "status" \in DOMAIN campaign
                THEN campaign.status ELSE "pending",
     currentAmount |-> IF "currentAmount" \in DOMAIN campaign
                       THEN campaign.currentAmount ELSE 0])

\* Bodies of campaign creations; a body may carry a status of its own.
CampaignBodies == [status : {"pending", "approved"}]

CreateCampaignAuth(h, token, body) ==
  /\ Receive(h, [kind |-> "createCampaign", token |-> token, body |-> body])
  /\ authenticateToken(h, token, FALSE, "ccCreate")
  /\ UNCHANGED tables

\* const campaign = await storage.createCampaign(campaignData)
CreateCampaignInsert(h) ==
  /\ pc[h] = "ccCreate"
  /\ Len(campaigns) <= MaxSeeded
  /\ LET campaignData == insertCampaignSchema(
                           [userId |-> loc[h].user.id] @@ req[h].body)
     IN campaigns' = createCampaign(campaigns, campaignData)
  /\ Respond(h, 201, Len(campaigns) + 1)
  /\ UNCHANGED <<users, financialDonations, allocTables, req, nreq>>

\* ------------------------------------- PUT /api/admin/campaigns/:id/status
\* Values of req.body.status.
CampaignStatusInputs == {"approved", "rejected", "archived"}

SetCampaignStatusAuth(h, token, id, status) ==
  /\ Receive(h, [kind |-> "setCampaignStatus", token |-> token, id |-> id,
                 status |-> status])
  /\ authenticateToken(h, token, TRUE, "csUpdate")
  /\ UNCHANGED tables

\* await storage.updateCampaign(id, { status }); res.json(campaign)
SetCampaignStatusUpdate(h) ==
  /\ pc[h] = "csUpdate"
  /\ campaigns' = updateCampaign(campaigns, req[h].id,
                                 [status |-> req[h].status])
  /\ Respond(h, 200, IF req[h].id \in DOMAIN campaigns THEN req[h].id ELSE NULL)
  /\ UNCHANGED <<users, financialDonations, allocTables, req, nreq>>

\* --------------------------------------------------- POST /api/auth/register
\* Email addresses; the last one belongs to no user when the server starts.
Emails == 1..3

\* insertUserSchema keeps role: only id, createdAt, passwordHash and the two
\* tokens are omitted.
insertUserSchema(body) == [email |-> body.email, role |-> body.role]

getUserByEmail(table, email) ==
  LET hits == {u \in DOMAIN table : table[u].email = email}
  IN IF hits # {} THEN WithId(table, CHOOSE u \in hits : TRUE) ELSE NoRow

\* role: insertUser.role || 'beneficiary'
createUser(table, insertUser) ==
  Append(table, [email |-> insertUser.email,
                 role |-> IF insertUser.role # ""
                          THEN insertUser.role ELSE "beneficiary"])

\* Bodies of registrations: role is left out ("") or given.
RegisterBodies == [email : 2..3, role : {"", "admin"}]

\* const existingUser = await storage.getUserByEmail(userData.email)
RegisterLookup(h, body) ==
  /\ Receive(h, [kind |-> "register", body |-> body])
  /\ IF getUserByEmail(users, insertUserSchema(body).email) # NoRow
     THEN Respond(h, 400, NULL)
     ELSE Goto(h, "regCreate", NoLoc)
  /\ UNCHANGED tables

\* const user = await storage.createUser({...userData, ...}); the insert
\* fails on the unique email when another registration got there first.
RegisterCreate(h) ==
  /\ pc[h] = "regCreate"
  /\ Len(users) <= MaxSeeded
  /\ LET userData == insertUserSchema(req[h].body)
     IN IF getUserByEmail(users, userData.email) # NoRow
        THEN /\ users' = users
             /\ Respond(h, 400, NULL)
        ELSE /\ users' = createUser(users, userData)
             /\ Respond(h, 201, Len(users) + 1)
  /\ UNCHANGED <<ledgerTables, allocTables, req, nreq>>

\* ------------------------------------------------------- PUT /api/users/me
\* UPDATE users SET (the columns of updates) WHERE id.
updateUser(table, id, updates) ==
  IF id \in DOMAIN table
  THEN [table EXCEPT ![id] =
          [f \in DOMAIN table[id] |->
             IF f \in DOMAIN updates THEN updates[f] ELSE table[id][f]]]
  ELSE table

\* Bodies of profile updates: req.body goes to updateUser as it is.
UpdateMeBodies == {[role |-> "admin"], [role |-> "beneficiary"]}

UpdateMeAuth(h, token, body) ==
  /\ Receive(h, [kind |-> "updateMe", token |-> token, body |-> body])
  /\ authenticateToken(h, token, FALSE, "umUpdate")
  /\ UNCHANGED tables

\* const user = await storage.updateUser(req.user.id, updates)
UpdateMeUpdate(h) ==
  /\ pc[h] = "umUpdate"
  /\ users' = updateUser(users, loc[h].user.id, req[h].body)
  /\ Respond(h, 200, loc[h].user.id)
  /\ UNCHANGED <<ledgerTables, allocTables, req, nreq>>

\* --------------------------------------------------------- specifications
\* The store the server starts on: an admin and a beneficiary, an approved
\* and a pending campaign with nothing collected, one published material
\* donation and the available item made from it.
InitHandlers ==
  /\ pc = [h \in Handlers |-> "idle"]
  /\ req = [h \in Handlers |-> NoReq]
  /\ loc = [h \in Handlers |-> NoLoc]
  /\ resp = [h \in Handlers |-> NoResp]
  /\ nreq = 0

InitUsers ==
  users = <<[email |-> 1, role |-> "admin"],
            [email |-> 2, role |-> "beneficiary"]>>

InitCampaigns ==
  campaigns = <<[status |-> "approved", currentAmount |-> 0],
                [status |-> "pending", currentAmount |-> 0]>>

InitItems ==
  /\ materialDonations = <<[status |-> "published_in_store"]>>
  /\ boutiqueItems = <<[sourceDonationId |-> 1, status |-> "available"]>>

\* Pending donations to campaign 1 whose operator transaction id was
\* recorded by the payment operator integration (routes.ts:226 leaves that
\* integration out); the column is unique, row i carries id i.
SeededDonations ==
  UNION {[1..n -> [campaignId : {1}, amount : SeedAmounts]] : n \in 0..MaxSeeded}

InitDonations ==
  \E seed \in SeededDonations :
    financialDonations =
      [i \in DOMAIN seed |->
         [campaignId |-> seed[i].campaignId, amount |-> seed[i].amount,
          operatorTransactionId |-> i, status |-> "pending"]]

\* The beneficiary's pending requests for item 1.
InitOrders ==
  \E n \in 0..MaxSeeded :
    boutiqueOrders =
      [i \in 1..n |-> [userId |-> 2, itemId |-> 1,
                       status |-> "pending_approval", handledByAdminId |-> NULL]]

\* The donation routes.
LedgerStep(h) ==
  \/ \E body \in InitiateBodies : InitiateDonation(h, body)
  \/ \E t \in TxIds, s \in CallbackStatuses : CallbackLookup(h, t, s)
  \/ CallbackUpdateDonation(h)
  \/ CallbackGetCampaign(h)
  \/ CallbackUpdateCampaign(h)

\* The token passes authenticateToken (and requireAdmin on an admin route).
Admitted(token, adminOnly) ==
  /\ token \in DOMAIN users
  /\ adminOnly => requireAdmin(getUser(users, token))

\* A request that is refused before its handler runs is never read past its
\* token, so one body and one parameter stand for all of them.
RequestBodiesFor(token) ==
  IF Admitted(token, FALSE)
  THEN RequestBodies
  ELSE {[itemId |-> 1, status |-> "pending_approval", handledByAdminId |-> NULL]}

DecisionsFor(token) ==
  IF Admitted(token, TRUE)
  THEN (1..(MaxSeeded + 1)) \X OrderStatusInputs
  ELSE {<<1, "approved">>}

\* The boutique routes.
AllocStep(h) ==
  \/ \E t \in Tokens : \E body \in RequestBodiesFor(t) :
       RequestItemAuth(h, t, body)
  \/ RequestItemCreate(h)
  \/ \E t \in Tokens : \E d \in DecisionsFor(t) :
       DecideAuth(h, t, d[1], d[2])
  \/ DecideUpdate(h)

LedgerInit ==
  /\ InitHandlers /\ InitUsers /\ InitCampaigns /\ InitItems
  /\ InitDonations
  /\ boutiqueOrders = << >>

LedgerNext == \E h \in Handlers : LedgerStep(h)

LedgerSpec == LedgerInit /\ [][LedgerNext]_vars

\* The donation routes with one request served at a time: each request runs
\* to its response before the next one arrives.
SeqLedgerNext == LedgerStep(1)

SeqLedgerSpec == LedgerInit /\ [][SeqLedgerNext]_vars

\* Besides item 1 the store holds an item that was withdrawn.
AllocInit ==
  /\ InitHandlers /\ InitUsers /\ InitCampaigns
  /\ materialDonations = <<[status |-> "published_in_store"]>>
  /\ boutiqueItems = <<[sourceDonationId |-> 1, status |-> "available"],
                       [sourceDonationId |-> NULL, status |-> "unavailable"]>>
  /\ financialDonations = << >>
  /\ InitOrders

AllocNext == \E h \in Handlers : AllocStep(h)

AllocSpec == AllocInit /\ [][AllocNext]_vars

\* The publication routes: besides the published donation 1, the store
\* holds material donations that await verification.
PublishStep(h) ==
  \/ \E valid \in BOOLEAN : SubmitMaterialDonation(h, valid)
  \/ \E t \in Tokens, id \in 1..(MaxSeeded + 2), body \in PublishBodies :
       PublishAuth(h, t, id, body)
  \/ PublishUpdate(h)
  \/ PublishCreate(h)

PublishInit ==
  /\ InitHandlers /\ InitUsers /\ InitCampaigns
  /\ financialDonations = << >>
  /\ boutiqueOrders = << >>
  /\ boutiqueItems = <<[sourceDonationId |-> 1, status |-> "available"]>>
  /\ \E n \in 0..MaxSeeded :
       materialDonations =
         <<[status |-> "published_in_store"]>> \o
         [i \in 1..n |-> [status |-> "pending_verification"]]

PublishNext == \E h \in Handlers : PublishStep(h)

PublishSpec == PublishInit /\ [][PublishNext]_vars

\* The campaign routes.
CampaignStep(h) ==
  \/ \E t \in Tokens, body \in CampaignBodies : CreateCampaignAuth(h, t, body)
  \/ CreateCampaignInsert(h)
  \/ \E t \in Tokens, id \in 1..(MaxSeeded + 1), s \in CampaignStatusInputs :
       SetCampaignStatusAuth(h, t, id, s)
  \/ SetCampaignStatusUpdate(h)

CampaignInit ==
  /\ InitHandlers /\ InitUsers /\ InitCampaigns /\ InitItems
  /\ financialDonations = << >>
  /\ boutiqueOrders = << >>

CampaignNext == \E h \in Handlers : CampaignStep(h)

CampaignSpec == CampaignInit /\ [][CampaignNext]_vars

\* The account routes.
UserStep(h) ==
  \/ \E body \in RegisterBodies : RegisterLookup(h, body)
  \/ RegisterCreate(h)
  \/ \E t \in Tokens, body \in UpdateMeBodies : UpdateMeAuth(h, t, body)
  \/ UpdateMeUpdate(h)

UserNext == \E h \in Handlers : UserStep(h)

UserSpec == CampaignInit /\ [][UserNext]_vars

\* The three moderation routes, each called on the row that awaits
\* moderation (campaign 2, material donation 2, order 1), and the profile
\* update through which a user's role changes. A request that is refused
\* before its handler runs is never read past its token, so one parameter
\* stands for all of them.
StatusUpdatesFor(token) ==
  IF Admitted(token, TRUE) THEN CampaignStatusInputs ELSE {"approved"}

PublicationsFor(token) ==
  IF Admitted(token, TRUE) THEN PublishBodies ELSE {[hasTitle |-> TRUE]}

OutcomesFor(token) ==
  IF Admitted(token, TRUE) THEN OrderStatusInputs ELSE {"approved"}

RoleUpdatesFor(token) ==
  IF Admitted(token, FALSE) THEN UpdateMeBodies ELSE {[role |-> "admin"]}

ModerationStep(h) ==
  \/ \E t \in Tokens : \E s \in StatusUpdatesFor(t) :
       SetCampaignStatusAuth(h, t, 2, s)
  \/ SetCampaignStatusUpdate(h)
  \/ \E t \in Tokens : \E body \in PublicationsFor(t) :
       PublishAuth(h, t, 2, body)
  \/ PublishUpdate(h)
  \/ PublishCreate(h)
  \/ \E t \in Tokens : \E s \in OutcomesFor(t) : DecideAuth(h, t, 1, s)
  \/ DecideUpdate(h)
  \/ \E t \in Tokens : \E body \in RoleUpdatesFor(t) :
       UpdateMeAuth(h, t, body)
  \/ UpdateMeUpdate(h)

\* One campaign, one material donation and one order await moderation.
ModerationInit ==
  /\ InitHandlers /\ InitUsers /\ InitCampaigns
  /\ financialDonations = << >>
  /\ materialDonations = <<[status |-> "published_in_store"],
                           [status |-> "pending_verification"]>>
  /\ boutiqueItems = <<[sourceDonationId |-> 1, status |-> "available"]>>
  /\ boutiqueOrders = <<[userId |-> 2, itemId |-> 1,
                         status |-> "pending_approval",
                         handledByAdminId |-> NULL]>>

ModerationNext == \E h \in Handlers : ModerationStep(h)

ModerationSpec == ModerationInit /\ [][ModerationNext]_vars

\* All routes together.
Init ==
  /\ InitHandlers /\ InitUsers /\ InitCampaigns /\ InitItems
  /\ InitDonations
  /\ InitOrders

Next ==
  \E h \in Handlers :
    \/ LedgerStep(h) \/ AllocStep(h) \/ PublishStep(h)
    \/ CampaignStep(h) \/ UserStep(h)

Spec == Init /\ [][Next]_vars

\* ------------------------------------------------------------ properties
Quiescent == \A h \in Handlers : Idle(h)

RECURSIVE CompletedSumUpTo(_, _)
\* Sum of amount over the completed donations 1..n of campaign c.
CompletedSumUpTo(c, n) ==
  IF n = 0 THEN 0
  ELSE CompletedSumUpTo(c, n - 1) +
       (IF financialDonations[n].campaignId = c /\
           financialDonations[n].status = "completed"
        THEN financialDonations[n].amount ELSE 0)

CompletedSum(c) == CompletedSumUpTo(c, Len(financialDonations))

LedgerBalanced ==
  \A c \in DOMAIN campaigns : campaigns[c].currentAmount = CompletedSum(c)

\* The step is the arrival of a request, which handler h serves.
Receives(h) ==
  /\ Idle(h)
  /\ \A g \in Handlers : g < h => ~Idle(g)
  /\ nreq' = nreq + 1

\* The step is a later storage call of the request handler h is serving.
Continues(h) == ~Idle(h) /\ pc'[h] # pc[h]

\* C1: whenever no callback is in flight, every campaign's currentAmount is
\* the sum of the amounts of its completed donations.
C1_LedgerInvariant == Quiescent => LedgerBalanced

Terminal == {"completed", "failed"}

\* C2: a callback that arrives after an identical one was fully applied (the
\* donation already has the status its outcome maps to) changes neither the
\* donation nor any campaign's currentAmount.
C2_ReplayIsNoOp ==
  [][\A h \in Handlers :
       (Continues(h) /\ loc[h].donation.status = DonationStatusFor(req[h].status))
         => (financialDonations' = financialDonations /\ campaigns' = campaigns)]_vars

\* C3: when two success callbacks for the same operatorTransactionId were in
\* flight together and are the only requests served, the campaign's
\* currentAmount has grown by the donation's amount exactly once.
C3_ConcurrentOnce ==
  \A g, h \in Handlers :
    (/\ g # h /\ nreq = 2
     /\ pc[g] = "done" /\ pc[h] = "done"
     /\ req[g].kind = "callback" /\ req[g].status = "success" /\ req[h] = req[g]
     /\ resp[g].code = 200 /\ resp[h].code = 200)
      => LET d == financialDonations[resp[g].id]
         IN campaigns[d.campaignId].currentAmount = d.amount

\* Orders of item i that are approved.
ApprovedOrders(i) ==
  {o \in DOMAIN boutiqueOrders :
     boutiqueOrders[o].itemId = i /\ boutiqueOrders[o].status = "approved"}

\* C4: no item ever has more than one approved order.
C4_AllocationExclusive ==
  \A i \in DOMAIN boutiqueItems : Cardinality(ApprovedOrders(i)) <= 1

\* C5: approving an order whose item already has another approved order is
\* answered with a conflict, and the order does not become approved.
C5_SecondApprovalConflicts ==
  [][\A h \in Handlers :
       (/\ pc[h] = "decUpdate" /\ Continues(h)
        /\ req[h].status = "approved"
        /\ req[h].id \in DOMAIN boutiqueOrders
        /\ ApprovedOrders(boutiqueOrders[req[h].id].itemId) \ {req[h].id} # {})
         => (/\ resp'[h].code = 409
             /\ boutiqueOrders'[req[h].id].status # "approved")]_vars

\* C6: in every state, also between the storage calls of a callback, every
\* campaign's currentAmount is the sum of the amounts of its completed
\* donations.
C6_CallbackAtomic == LedgerBalanced

\* C7: a donation that is completed or failed keeps its status, and a
\* callback that found it completed or failed changes no campaign.
C7_TerminalStatus ==
  [][/\ \A d \in DOMAIN financialDonations :
          financialDonations[d].status \in Terminal
            => financialDonations'[d].status = financialDonations[d].status
     /\ \A h \in Handlers :
          (Continues(h) /\ loc[h].donation.status \in Terminal)
            => campaigns' = campaigns]_vars

\* C8 (Scenario A): after a donation was initiated against an approved
\* campaign with operator transaction id T, the next request, a success
\* callback carrying T, finds that donation.
C8_ScenarioA ==
  [][(/\ pc[1] = "done" /\ req[1].kind = "initiate" /\ resp[1].code = 201
      /\ req[1].body.operatorTransactionId # NULL
      /\ campaigns[req[1].body.campaignId].status = "approved"
      /\ Receives(1) /\ req'[1].kind = "callback"
      /\ req'[1].status = "success"
      /\ req'[1].transaction_id = req[1].body.operatorTransactionId)
       => (/\ pc'[1] = "cbUpdateDonation"
           /\ loc'[1].donation.id = resp[1].id)]_vars

\* No stored donation carries operator transaction id t.
UnknownToStore(t) ==
  \A d \in DOMAIN financialDonations :
    financialDonations[d].operatorTransactionId # t

\* C9: a callback whose operatorTransactionId no stored donation carries is
\* answered 404 at once and changes no table.
C9_UnknownTxNotFound ==
  [][\A h \in Handlers :
       (/\ Receives(h) /\ req'[h].kind = "callback"
        /\ UnknownToStore(req'[h].transaction_id))
         => (/\ pc'[h] = "done" /\ resp'[h].code = 404
             /\ UNCHANGED tables)]_vars

C9_Witness ==
  \E h \in Handlers :
    /\ pc[h] = "done" /\ req[h].kind = "callback" /\ resp[h].code = 404
    /\ financialDonations # << >>
    /\ UnknownToStore(req[h].transaction_id)

\* C10: the donation-status write of a failure callback on a pending
\* donation sets it to failed, ends the handler and changes no campaign.
C10_FailureSetsFailed ==
  [][\A h \in Handlers :
       (/\ pc[h] = "cbUpdateDonation" /\ Continues(h)
        /\ req[h].status = "failure"
        /\ financialDonations[loc[h].donation.id].status = "pending")
         => (/\ financialDonations'[loc[h].donation.id].status = "failed"
             /\ campaigns' = campaigns
             /\ pc'[h] = "done" /\ resp'[h].code = 200)]_vars

C10_Witness ==
  \E h \in Handlers :
    /\ pc[h] = "done" /\ req[h].kind = "callback" /\ req[h].status = "failure"
    /\ resp[h].code = 200
    /\ financialDonations[resp[h].id].status = "failed"
    /\ campaigns[financialDonations[resp[h].id].campaignId].currentAmount = 0

\* Items made from material donation m.
ItemsOf(m) ==
  {i \in DOMAIN boutiqueItems : boutiqueItems[i].sourceDonationId = m}

\* C11: a publish call on a material donation that is already
\* published_in_store is answered with a conflict and creates no item.
C11_SecondPublishConflicts ==
  [][\A h \in Handlers :
       (/\ pc[h] = "pubUpdate" /\ Continues(h)
        /\ req[h].id \in DOMAIN materialDonations
        /\ materialDonations[req[h].id].status = "published_in_store")
         => (/\ pc'[h] = "done" /\ resp'[h].code = 409
             /\ boutiqueItems' = boutiqueItems)]_vars

\* C12: every material donation is the source of at most one item, and it
\* is published_in_store exactly when one item has it as its source.
C12_OneItemPerDonation ==
  \A m \in DOMAIN materialDonations :
    /\ Cardinality(ItemsOf(m)) <= 1
    /\ materialDonations[m].status = "published_in_store"
         <=> Cardinality(ItemsOf(m)) = 1

\* Handler h takes the storage step of a decide call on an existing order.
Decides(h, status) ==
  /\ pc[h] = "decUpdate" /\ Continues(h)
  /\ req[h].status = status
  /\ req[h].id \in DOMAIN boutiqueOrders

\* C13: no approved order targets an item that is still available.
C13_ApprovedItemUnavailable ==
  \A o \in DOMAIN boutiqueOrders :
    boutiqueOrders[o].status = "approved"
      => boutiqueItems[boutiqueOrders[o].itemId].status # "available"

\* C14: a decide call with outcome rejected marks that order rejected and
\* leaves every item and every other order as it was.
C14_RejectFrame ==
  [][\A h \in Handlers :
       Decides(h, "rejected")
         => /\ boutiqueOrders'[req[h].id].status = "rejected"
            /\ boutiqueItems' = boutiqueItems
            /\ DOMAIN boutiqueOrders' = DOMAIN boutiqueOrders
            /\ \A o \in DOMAIN boutiqueOrders \ {req[h].id} :
                 boutiqueOrders'[o] = boutiqueOrders[o]]_vars

\* A rejection was answered while another order was still waiting.
C14_Witness ==
  \E h \in Handlers :
    /\ pc[h] = "done" /\ req[h].kind = "decide" /\ req[h].status = "rejected"
    /\ resp[h].code = 200 /\ resp[h].id # NULL
    /\ boutiqueOrders[resp[h].id].status = "rejected"
    /\ \E o \in DOMAIN boutiqueOrders \ {resp[h].id} :
         boutiqueOrders[o].status = "pending_approval"
    /\ boutiqueItems[boutiqueOrders[resp[h].id].itemId].status = "available"

OrderStatuses == {"pending_approval", "approved", "rejected"}

\* C15: an order's status is always pending_approval, approved or rejected,
\* and it changes only from pending_approval.
C15_OrderStateMachine ==
  [][\A o \in DOMAIN boutiqueOrders' :
       /\ boutiqueOrders'[o].status \in OrderStatuses
       /\ (o \in DOMAIN boutiqueOrders
             /\ boutiqueOrders'[o].status # boutiqueOrders[o].status)
            => boutiqueOrders[o].status = "pending_approval"]_vars

\* C16: an order is created only for an item that exists and is available
\* when the request is served.
C16_OrderOnlyForAvailable ==
  [][\A h \in Handlers :
       (/\ pc[h] = "roCreate" /\ Continues(h)
        /\ Len(boutiqueOrders') > Len(boutiqueOrders))
         => /\ req[h].body.itemId \in DOMAIN boutiqueItems
            /\ boutiqueItems[req[h].body.itemId].status = "available"]_vars

\* C17: serving an order request changes no item; a request for an
\* available item appends one order, pending_approval with no handling
\* admin, whatever orders the item already has.
C17_RequestFrame ==
  [][\A h \in Handlers :
       (pc[h] = "roCreate" /\ Continues(h))
         => /\ boutiqueItems' = boutiqueItems
            /\ (/\ req[h].body.itemId \in DOMAIN boutiqueItems
                 /\ boutiqueItems[req[h].body.itemId].status = "available")
                 => /\ Len(boutiqueOrders') = Len(boutiqueOrders) + 1
                    /\ SubSeq(boutiqueOrders', 1, Len(boutiqueOrders))
                         = boutiqueOrders
                    /\ LET order == boutiqueOrders'[Len(boutiqueOrders')]
                       IN /\ order.itemId = req[h].body.itemId
                          /\ order.status = "pending_approval"
                          /\ order.handledByAdminId = NULL]_vars

\* Two requests that overlapped each queued an order for item 1, one of
\* them sent with a status and a handling admin of its own.
C17_Witness ==
  /\ \A h \in 1..2 :
       /\ pc[h] = "done" /\ req[h].kind = "requestItem"
       /\ req[h].body.itemId = 1 /\ resp[h].code = 201
       /\ boutiqueOrders[resp[h].id].status = "pending_approval"
       /\ boutiqueOrders[resp[h].id].handledByAdminId = NULL
  /\ \E h \in 1..2 : req[h].body.status = "approved"
  /\ boutiqueItems[1].status = "available"

\* Handler h receives an initiate request and serves it in the same step.
Initiates(h) == Receives(h) /\ req'[h].kind = "initiate"

\* C18: an initiate request whose amount is not positive, or whose campaign
\* does not exist or is not approved, is rejected and stores no donation.
C18_InitiateValidated ==
  [][\A h \in Handlers :
       (/\ Initiates(h)
        /\ \/ req'[h].body.amount <= 0
           \/ req'[h].body.campaignId \notin DOMAIN campaigns
           \/ campaigns[req'[h].body.campaignId].status # "approved")
         => /\ resp'[h].code = 400
            /\ financialDonations' = financialDonations]_vars

\* C19: an initiate request that succeeds appends exactly one donation, with
\* status pending, and changes no campaign.
C19_InitiateFrame ==
  [][\A h \in Handlers :
       (Initiates(h) /\ resp'[h].code = 201)
         => /\ Len(financialDonations') = Len(financialDonations) + 1
            /\ SubSeq(financialDonations', 1, Len(financialDonations))
                 = financialDonations
            /\ financialDonations'[resp'[h].id].status = "pending"
            /\ resp'[h].id = Len(financialDonations')
            /\ campaigns' = campaigns]_vars

\* An initiate request sent with status completed was answered 201 and its
\* donation is pending.
C19_Witness ==
  \E h \in Handlers :
    /\ pc[h] = "done" /\ req[h].kind = "initiate"
    /\ req[h].body.status = "completed" /\ req[h].body.amount > 0
    /\ resp[h].code = 201
    /\ financialDonations[resp[h].id].status = "pending"
    /\ campaigns[req[h].body.campaignId].currentAmount = 0

\* C20: no step lowers a campaign's currentAmount.
C20_AmountMonotone ==
  [][\A c \in DOMAIN campaigns :
       campaigns'[c].currentAmount >= campaigns[c].currentAmount]_vars

\* Donations that carry operator transaction id t.
DonationsWithTx(t) ==
  {d \in DOMAIN financialDonations :
     financialDonations[d].operatorTransactionId = t}

\* C22: no two donations carry the same non-null operatorTransactionId, so
\* a lookup by operatorTransactionId matches at most one donation.
C22_TxIdUnique ==
  \A d \in DOMAIN financialDonations :
    financialDonations[d].operatorTransactionId # NULL
      => DonationsWithTx(financialDonations[d].operatorTransactionId) = {d}

\* Two donations carry ids, a callback has written one of them back, and an
\* initiate request sent with an id of its own was stored.
C22_Witness ==
  /\ \E d, e \in DOMAIN financialDonations :
       /\ d # e
       /\ financialDonations[d].operatorTransactionId # NULL
       /\ financialDonations[e].operatorTransactionId # NULL
  /\ \E h \in Handlers :
       /\ pc[h] = "done" /\ req[h].kind = "callback" /\ resp[h].code = 200
  /\ \E h \in Handlers :
       /\ pc[h] = "done" /\ req[h].kind = "initiate" /\ resp[h].code = 201
       /\ req[h].body.operatorTransactionId # NULL

\* C24: when success callbacks for two different donations of one campaign
\* overlapped and are the only requests served, the campaign's
\* currentAmount has grown by the sum of the two amounts.
C24_NoLostUpdate ==
  \A g, h \in Handlers :
    (/\ g # h /\ nreq = 2
     /\ pc[g] = "done" /\ pc[h] = "done"
     /\ req[g].kind = "callback" /\ req[g].status = "success"
     /\ req[h].kind = "callback" /\ req[h].status = "success"
     /\ resp[g].code = 200 /\ resp[h].code = 200
     /\ resp[g].id # resp[h].id
     /\ financialDonations[resp[g].id].campaignId
          = financialDonations[resp[h].id].campaignId)
      => campaigns[financialDonations[resp[g].id].campaignId].currentAmount
           = financialDonations[resp[g].id].amount
             + financialDonations[resp[h].id].amount

\* C26: the donation an initiate request stores is pending with no
\* operatorTransactionId, whatever the body carries, and no step gives an
\* operatorTransactionId to a donation that has none.
C26_InitiateIgnoresExtras ==
  [][/\ \A h \in Handlers :
          (Initiates(h) /\ resp'[h].code = 201)
            => /\ financialDonations'[resp'[h].id].status = "pending"
               /\ financialDonations'[resp'[h].id].operatorTransactionId = NULL
     /\ \A d \in DOMAIN financialDonations :
          financialDonations[d].operatorTransactionId = NULL
            => financialDonations'[d].operatorTransactionId = NULL]_vars

\* A donation was initiated with an operatorTransactionId and a status in
\* the body while a callback was being served; the callback has finished
\* and still no donation carries the id the body gave.
C26_Witness ==
  \E g, h \in Handlers :
    /\ pc[g] = "done" /\ req[g].kind = "initiate" /\ resp[g].code = 201
    /\ req[g].body.operatorTransactionId # NULL
    /\ req[g].body.status = "completed"
    /\ financialDonations[resp[g].id].operatorTransactionId = NULL
    /\ financialDonations[resp[g].id].status = "pending"
    /\ DonationsWithTx(req[g].body.operatorTransactionId) = {}
    /\ pc[h] = "done" /\ req[h].kind = "callback" /\ resp[h].code = 200

\* C27: the donation-status write of a callback sets completed for the
\* outcome success and failed for every other outcome; after any other
\* outcome the handler ends and no campaign changes; a campaign changes
\* only by a success callback adding the donation's amount to the
\* currentAmount it read.
C27_OnlySuccessCredits ==
  [][/\ \A h \in Handlers :
          (pc[h] = "cbUpdateDonation" /\ Continues(h))
            => IF req[h].status = "success"
               THEN financialDonations'[loc[h].donation.id].status = "completed"
               ELSE /\ financialDonations'[loc[h].donation.id].status = "failed"
                    /\ pc'[h] = "done" /\ resp'[h].code = 200
                    /\ campaigns' = campaigns
     /\ campaigns' # campaigns
          => \E h \in Handlers :
               /\ pc[h] = "cbUpdateCampaign" /\ Continues(h)
               /\ req[h].status = "success"
               /\ campaigns'[loc[h].campaign.id].currentAmount
                    = loc[h].campaign.currentAmount + loc[h].donation.amount]_vars

\* A callback with outcome SUCCESS left its donation failed while an
\* overlapping one with outcome success completed another and credited it.
C27_Witness ==
  \E g, h \in Handlers :
    /\ pc[g] = "done" /\ req[g].kind = "callback" /\ req[g].status = "SUCCESS"
    /\ resp[g].code = 200
    /\ financialDonations[resp[g].id].status = "failed"
    /\ pc[h] = "done" /\ req[h].kind = "callback" /\ req[h].status = "success"
    /\ resp[h].code = 200
    /\ financialDonations[resp[h].id].status = "completed"
    /\ campaigns[financialDonations[resp[h].id].campaignId].currentAmount
         = financialDonations[resp[h].id].amount

ModerationKinds == {"setCampaignStatus", "publish", "decide"}

\* What the moderation routes write.
moderated == <<campaigns, materialDonations, boutiqueItems, boutiqueOrders>>

\* C21: a moderation call whose caller is not a stored user with role admin
\* when the call arrives is refused at once and changes no table, and every
\* change of a campaign, material donation, item or order is a step of a
\* moderation call whose caller was read as an admin by that call.
C21_AdminOnlyModeration ==
  [][/\ \A h \in Handlers :
          (/\ Receives(h) /\ req'[h].kind \in ModerationKinds
           /\ \/ req'[h].token \notin DOMAIN users
              \/ users[req'[h].token].role # "admin")
            => /\ pc'[h] = "done" /\ resp'[h].code \in {401, 403}
               /\ UNCHANGED tables
     /\ moderated' # moderated
          => \E h \in Handlers :
               /\ Continues(h) /\ req[h].kind \in ModerationKinds
               /\ loc[h].user.role = "admin"]_vars

\* The beneficiary's decide call was refused while the admin's call was
\* being served; the admin's call has changed the order.
C21_Witness ==
  \E g, h \in Handlers :
    /\ pc[g] = "done" /\ req[g].kind = "decide" /\ req[g].token = 2
    /\ users[2].role = "beneficiary" /\ resp[g].code = 403
    /\ pc[h] = "done" /\ req[h].kind = "decide" /\ req[h].token = 1
    /\ resp[h].code = 200
    /\ boutiqueOrders[1].status # "pending_approval"
    /\ boutiqueOrders[1].handledByAdminId = 1

CampaignStatuses == {"pending", "approved", "rejected"}

\* C23: a campaign is created with status pending, and every campaign's
\* status is always pending, approved or rejected.
C23_CampaignStatusDomain ==
  [][\A c \in DOMAIN campaigns' :
       /\ campaigns'[c].status \in CampaignStatuses
       /\ c \notin DOMAIN campaigns => campaigns'[c].status = "pending"]_vars

\* C25: a user gets the role admin (on creation or by an update) only in a
\* step of a request whose caller is an admin.
C25_NoPrivilegeEscalation ==
  [][\A u \in DOMAIN users' :
       (/\ users'[u].role = "admin"
        /\ u \in DOMAIN users => users[u].role # "admin")
         => \E h \in Handlers :
              /\ Continues(h)
              /\ loc[h].user.id \in DOMAIN users
              /\ loc[h].user.id # u
              /\ users[loc[h].user.id].role = "admin"]_vars

====
